---- MODULE Spec2Model ----
(***************************************************************************)
(* Model of SP-cvd_risk_app_final_ready.py: one run of the Streamlit       *)
(* script, from the widget values of the run to the displayed result.      *)
(*                                                                         *)
(* Number representation.  The script computes with Python floats; the     *)
(* model computes with integers in fixed point:                            *)
(*   - a percentage that the script rounds to one decimal (risk10, risk5,  *)
(*     baseline_risk, final_risk, arr, rrr) is held in tenths of a percent *)
(*     (12.3 % is 123);                                                    *)
(*   - a widget value with step 0.1 (total_chol, hdl, crp, the LDL-C       *)
(*     inputs) is read in tenths (5.0 mmol/L is 50);                       *)
(*   - every other real (the linear predictor, LDL-C after therapy, the    *)
(*     remaining risk fraction, ldl_rrr, bp_rrr) is held in millionths     *)
(*     (Scale), each product rounded to the nearest millionth.             *)
(* exp and log are tabulated from the script's own expressions:            *)
(* RiskThreshold for 1 - 0.900**exp(lp - 5.8) and LnMicro for log(crp+1).  *)
(***************************************************************************)
EXTENDS Integers, Sequences, FiniteSets, TLC

VARIABLES
  pc,        \* the line group the script will run next
  w,         \* the widget values of this run (what each st.* call returns)
  ns,        \* the script's namespace: a function from bound names to values
  warnings,  \* the st.warning messages issued so far
  out,       \* what the display section has written
  error      \* "none", or the exception that ended the run

vars == <<pc, w, ns, warnings, out, error>>

Scale == 10^6

\* ----- bounds of the checked input sets -----
GridN == 2
MaxTherapies == 3
MaxSelected == 2
MaxChoices == 1

\* ----- Intervention data -----
interventions ==
  << [name |-> "Smoking cessation",                 arr_lifetime |-> 17, arr_5yr |-> 5],
     [name |-> "Antiplatelet (ASA or clopidogrel)", arr_lifetime |-> 6,  arr_5yr |-> 2],
     [name |-> "BP control (ACEi/ARB +- CCB)",      arr_lifetime |-> 12, arr_5yr |-> 4],
     [name |-> "Semaglutide 2.4 mg",                arr_lifetime |-> 4,  arr_5yr |-> 1],
     [name |-> "Weight loss to ideal BMI",          arr_lifetime |-> 10, arr_5yr |-> 3],
     [name |-> "Empagliflozin",                     arr_lifetime |-> 6,  arr_5yr |-> 2],
     [name |-> "Icosapent ethyl (TG >=1.5)",        arr_lifetime |-> 5,  arr_5yr |-> 2],
     [name |-> "Mediterranean diet",                arr_lifetime |-> 9,  arr_5yr |-> 3],
     [name |-> "Physical activity",                 arr_lifetime |-> 9,  arr_5yr |-> 3],
     [name |-> "Alcohol moderation",                arr_lifetime |-> 5,  arr_5yr |-> 2],
     [name |-> "Stress reduction",                  arr_lifetime |-> 3,  arr_5yr |-> 1] >>

\* The dict's keys in insertion order, and its values (percent LDL-C reduction).
ldl_therapy_names ==
  << "Atorvastatin 20 mg", "Atorvastatin 80 mg", "Rosuvastatin 10 mg",
     "Rosuvastatin 20-40 mg", "Simvastatin 40 mg", "Ezetimibe",
     "PCSK9 inhibitor", "Bempedoic acid" >>

ldl_therapies ==
  [d \in {ldl_therapy_names[i] : i \in 1..Len(ldl_therapy_names)} |->
     CASE d = "Atorvastatin 20 mg"    -> 40
       [] d = "Atorvastatin 80 mg"    -> 50
       [] d = "Rosuvastatin 10 mg"    -> 40
       [] d = "Rosuvastatin 20-40 mg" -> 55
       [] d = "Simvastatin 40 mg"     -> 35
       [] d = "Ezetimibe"             -> 20
       [] d = "PCSK9 inhibitor"       -> 60
       [] d = "Bempedoic acid"        -> 18]

InterventionNames == {interventions[i].name : i \in 1..Len(interventions)}

TherapyNames == DOMAIN ldl_therapies

\* ----- fixed-point arithmetic standing for the float operations -----
Min(a, b) == IF a <= b THEN a ELSE b

Max(a, b) == IF a >= b THEN a ELSE b

\* n/d rounded to the nearest integer, ties to even (Python's round), d > 0.
RoundDiv(n, d) ==
  LET q == n \div d
      r == n % d
  IN  IF 2 * r < d THEN q
      ELSE IF 2 * r > d THEN q + 1
      ELSE IF q % 2 = 0 THEN q ELSE q + 1

\* a*b/Scale rounded to the nearest integer, for a, b >= 0 held in millionths.
\* The product is formed in thousands so that no intermediate value leaves
\* the 32-bit integers TLC computes with.
MulScale(a, b) ==
  LET ah == a \div 1000
      al == a % 1000
      bh == b \div 1000
      bl == b % 1000
      mid == ah * bl + al * bh
  IN  ah * bh + (mid \div 1000)
        + RoundDiv((mid % 1000) * 1000 + al * bl, Scale)

\* RiskThreshold[k]: the least linear predictor lp, in millionths, for which
\* round((1 - 0.900**math.exp(lp - 5.8)) * 100, 1) >= k/10, k = 1..1000
\* (tabulated by evaluating that expression; it is increasing in lp).
RiskThreshold ==
  << 449715, 1548828, 2060155, 2397128, 2648944, 2850117, 3017674, 3161277, 3286944, 3398673,
     3499261, 3590737, 3674624, 3752091, 3824055, 3891253, 3954280, 4013628, 4069705, 4122857,
     4173376, 4221513, 4267485, 4311480, 4353663, 4394179, 4433156, 4470709, 4506939, 4541937,
     4575787, 4608561, 4640327, 4671147, 4701075, 4730164, 4758459, 4786003, 4812837, 4838996,
     4864515, 4889424, 4913753, 4937528, 4960776, 4983518, 5005778, 5027576, 5048931, 5069861,
     5090384, 5110515, 5130269, 5149660, 5168703, 5187410, 5205792, 5223861, 5241628, 5259104,
     5276297, 5293218, 5309875, 5326276, 5342430, 5358343, 5374024, 5389480, 5404716, 5419740,
     5434557, 5449173, 5463594, 5477826, 5491873, 5505740, 5519432, 5532953, 5546309, 5559503,
     5572539, 5585421, 5598153, 5610739, 5623182, 5635485, 5647652, 5659686, 5671589, 5683366,
     5695018, 5706548, 5717960, 5729255, 5740436, 5751506, 5762466, 5773320, 5784069, 5794715,
     5805261, 5815708, 5826059, 5836315, 5846479, 5856551, 5866534, 5876429, 5886238, 5895963,
     5905605, 5915165, 5924646, 5934048, 5943373, 5952622, 5961797, 5970898, 5979928, 5988887,
     5997776, 6006597, 6015351, 6024039, 6032662, 6041221, 6049716, 6058150, 6066523, 6074836,
     6083090, 6091285, 6099423, 6107505, 6115531, 6123503, 6131421, 6139285, 6147097, 6154858,
     6162567, 6170227, 6177837, 6185399, 6192912, 6200378, 6207797, 6215171, 6222499, 6229782,
     6237021, 6244216, 6251369, 6258479, 6265547, 6272574, 6279560, 6286505, 6293411, 6300278,
     6307106, 6313896, 6320648, 6327362, 6334040, 6340682, 6347287, 6353857, 6360392, 6366892,
     6373358, 6379791, 6386189, 6392555, 6398889, 6405189, 6411459, 6417696, 6423902, 6430078,
     6436223, 6442338, 6448424, 6454480, 6460506, 6466504, 6472474, 6478415, 6484329, 6490215,
     6496074, 6501906, 6507711, 6513490, 6519242, 6524969, 6530670, 6536347, 6541998, 6547624,
     6553226, 6558803, 6564357, 6569887, 6575393, 6580876, 6586336, 6591773, 6597187, 6602579,
     6607949, 6613297, 6618624, 6623929, 6629212, 6634475, 6639716, 6644937, 6650137, 6655317,
     6660477, 6665617, 6670738, 6675839, 6680920, 6685982, 6691025, 6696050, 6701056, 6706043,
     6711012, 6715963, 6720895, 6725810, 6730708, 6735587, 6740450, 6745295, 6750123, 6754934,
     6759729, 6764507, 6769268, 6774013, 6778742, 6783455, 6788152, 6792833, 6797499, 6802149,
     6806784, 6811403, 6816008, 6820597, 6825172, 6829732, 6834277, 6838808, 6843324, 6847826,
     6852314, 6856788, 6861248, 6865694, 6870127, 6874546, 6878952, 6883344, 6887723, 6892088,
     6896441, 6900781, 6905108, 6909422, 6913724, 6918013, 6922290, 6926554, 6930806, 6935046,
     6939274, 6943490, 6947694, 6951887, 6956067, 6960236, 6964394, 6968540, 6972675, 6976798,
     6980911, 6985012, 6989102, 6993182, 6997250, 7001308, 7005355, 7009392, 7013418, 7017433,
     7021439, 7025434, 7029418, 7033393, 7037358, 7041312, 7045257, 7049192, 7053117, 7057032,
     7060938, 7064834, 7068721, 7072598, 7076466, 7080325, 7084174, 7088014, 7091845, 7095667,
     7099481, 7103285, 7107080, 7110867, 7114645, 7118414, 7122175, 7125927, 7129671, 7133406,
     7137133, 7140851, 7144562, 7148264, 7151958, 7155644, 7159322, 7162992, 7166654, 7170308,
     7173955, 7177593, 7181224, 7184848, 7188463, 7192072, 7195672, 7199266, 7202852, 7206430,
     7210002, 7213566, 7217123, 7220672, 7224215, 7227751, 7231279, 7234801, 7238316, 7241824,
     7245325, 7248819, 7252307, 7255788, 7259262, 7262730, 7266191, 7269646, 7273094, 7276536,
     7279971, 7283400, 7286823, 7290240, 7293650, 7297054, 7300452, 7303844, 7307230, 7310610,
     7313984, 7317353, 7320715, 7324071, 7327422, 7330767, 7334106, 7337439, 7340767, 7344089,
     7347405, 7350716, 7354022, 7357322, 7360616, 7363905, 7367189, 7370468, 7373741, 7377009,
     7380272, 7383529, 7386781, 7390029, 7393271, 7396508, 7399740, 7402967, 7406189, 7409406,
     7412619, 7415826, 7419029, 7422226, 7425420, 7428608, 7431791, 7434970, 7438145, 7441314,
     7444480, 7447640, 7450796, 7453948, 7457095, 7460238, 7463376, 7466510, 7469640, 7472765,
     7475886, 7479003, 7482115, 7485224, 7488328, 7491428, 7494524, 7497616, 7500703, 7503787,
     7506867, 7509943, 7513015, 7516083, 7519147, 7522207, 7525263, 7528316, 7531365, 7534410,
     7537451, 7540488, 7543522, 7546553, 7549579, 7552602, 7555622, 7558637, 7561650, 7564659,
     7567664, 7570666, 7573664, 7576659, 7579651, 7582639, 7585624, 7588606, 7591584, 7594559,
     7597531, 7600500, 7603466, 7606428, 7609387, 7612343, 7615296, 7618246, 7621193, 7624137,
     7627077, 7630015, 7632950, 7635882, 7638811, 7641737, 7644661, 7647581, 7650499, 7653413,
     7656325, 7659235, 7662141, 7665045, 7667946, 7670844, 7673740, 7676633, 7679524, 7682412,
     7685297, 7688180, 7691060, 7693938, 7696814, 7699686, 7702557, 7705425, 7708291, 7711154,
     7714015, 7716873, 7719730, 7722583, 7725435, 7728285, 7731132, 7733977, 7736819, 7739660,
     7742499, 7745335, 7748169, 7751001, 7753831, 7756659, 7759485, 7762309, 7765131, 7767951,
     7770769, 7773585, 7776399, 7779211, 7782022, 7784830, 7787637, 7790442, 7793245, 7796046,
     7798846, 7801644, 7804440, 7807234, 7810027, 7812818, 7815607, 7818395, 7821181, 7823965,
     7826748, 7829530, 7832310, 7835088, 7837865, 7840640, 7843414, 7846187, 7848958, 7851728,
     7854496, 7857263, 7860029, 7862793, 7865556, 7868317, 7871078, 7873837, 7876595, 7879352,
     7882107, 7884862, 7887615, 7890367, 7893118, 7895868, 7898616, 7901364, 7904111, 7906856,
     7909601, 7912345, 7915087, 7917829, 7920570, 7923310, 7926048, 7928787, 7931524, 7934260,
     7936996, 7939730, 7942464, 7945198, 7947930, 7950662, 7953393, 7956123, 7958853, 7961582,
     7964310, 7967038, 7969765, 7972492, 7975218, 7977944, 7980669, 7983393, 7986117, 7988841,
     7991564, 7994286, 7997009, 7999731, 8002452, 8005173, 8007894, 8010615, 8013335, 8016055,
     8018775, 8021494, 8024213, 8026933, 8029652, 8032370, 8035089, 8037808, 8040526, 8043244,
     8045963, 8048681, 8051399, 8054118, 8056836, 8059554, 8062273, 8064991, 8067710, 8070429,
     8073147, 8075867, 8078586, 8081305, 8084025, 8086745, 8089465, 8092186, 8094907, 8097628,
     8100349, 8103071, 8105794, 8108516, 8111240, 8113963, 8116687, 8119412, 8122137, 8124863,
     8127589, 8130316, 8133044, 8135772, 8138501, 8141230, 8143961, 8146692, 8149423, 8152156,
     8154889, 8157623, 8160358, 8163094, 8165831, 8168568, 8171307, 8174046, 8176787, 8179529,
     8182271, 8185015, 8187760, 8190505, 8193252, 8196001, 8198750, 8201500, 8204252, 8207005,
     8209759, 8212515, 8215272, 8218030, 8220790, 8223551, 8226314, 8229078, 8231843, 8234610,
     8237379, 8240149, 8242921, 8245695, 8248470, 8251246, 8254025, 8256805, 8259587, 8262371,
     8265157, 8267944, 8270733, 8273525, 8276318, 8279113, 8281911, 8284710, 8287511, 8290315,
     8293120, 8295928, 8298738, 8301550, 8304365, 8307181, 8310000, 8312822, 8315646, 8318472,
     8321301, 8324132, 8326965, 8329802, 8332641, 8335482, 8338326, 8341173, 8344023, 8346875,
     8349730, 8352588, 8355449, 8358313, 8361180, 8364050, 8366923, 8369799, 8372678, 8375560,
     8378445, 8381334, 8384226, 8387121, 8390020, 8392922, 8395827, 8398736, 8401648, 8404564,
     8407484, 8410407, 8413334, 8416265, 8419200, 8422138, 8425080, 8428027, 8430977, 8433931,
     8436889, 8439852, 8442819, 8445790, 8448765, 8451744, 8454728, 8457717, 8460709, 8463707,
     8466709, 8469716, 8472727, 8475743, 8478764, 8481790, 8484821, 8487857, 8490898, 8493944,
     8496995, 8500052, 8503113, 8506181, 8509253, 8512331, 8515415, 8518504, 8521599, 8524700,
     8527807, 8530919, 8534038, 8537163, 8540294, 8543430, 8546574, 8549723, 8552879, 8556042,
     8559211, 8562387, 8565570, 8568759, 8571956, 8575159, 8578369, 8581587, 8584812, 8588044,
     8591284, 8594532, 8597786, 8601049, 8604320, 8607598, 8610885, 8614179, 8617482, 8620794,
     8624113, 8627441, 8630778, 8634124, 8637479, 8640842, 8644215, 8647597, 8650989, 8654389,
     8657800, 8661220, 8664650, 8668090, 8671541, 8675001, 8678472, 8681954, 8685446, 8688949,
     8692463, 8695988, 8699525, 8703073, 8706633, 8710204, 8713788, 8717383, 8720991, 8724611,
     8728244, 8731890, 8735549, 8739221, 8742907, 8746606, 8750319, 8754046, 8757787, 8761543,
     8765313, 8769098, 8772899, 8776714, 8780546, 8784393, 8788256, 8792136, 8796032, 8799945,
     8803876, 8807823, 8811789, 8815772, 8819774, 8823795, 8827834, 8831893, 8835971, 8840070,
     8844188, 8848328, 8852488, 8856670, 8860873, 8865099, 8869347, 8873618, 8877913, 8882232,
     8886575, 8890943, 8895336, 8899754, 8904200, 8908672, 8913171, 8917698, 8922254, 8926838,
     8931453, 8936097, 8940773, 8945480, 8950220, 8954992, 8959799, 8964639, 8969515, 8974428,
     8979377, 8984364, 8989389, 8994454, 8999560, 9004708, 9009898, 9015132, 9020411, 9025736,
     9031108, 9036528, 9041999, 9047521, 9053095, 9058723, 9064408, 9070149, 9075950, 9081811,
     9087735, 9093724, 9099779, 9105904, 9112099, 9118368, 9124713, 9131136, 9137641, 9144229,
     9150906, 9157673, 9164534, 9171492, 9178553, 9185719, 9192995, 9200386, 9207897, 9215533,
     9223300, 9231204, 9239252, 9247450, 9255806, 9264329, 9273028, 9281912, 9290991, 9300278,
     9309784, 9319525, 9329514, 9339769, 9350308, 9361152, 9372325, 9383852, 9395763, 9408090,
     9420873, 9434155, 9447986, 9462426, 9477544, 9493422, 9510160, 9527879, 9546728, 9566896,
     9588624, 9612230, 9638143, 9666971, 9699605, 9737448, 9782907, 9840704, 9922522, 10078635 >>

\* LnMicro[c]: math.log(c/10 + 1) in millionths, for crp = c/10 = 0.1 .. 20.0.
LnMicro ==
  << 95310, 182322, 262364, 336472, 405465, 470004, 530628, 587787, 641854, 693147,
     741937, 788457, 832909, 875469, 916291, 955511, 993252, 1029619, 1064711, 1098612,
     1131402, 1163151, 1193922, 1223775, 1252763, 1280934, 1308333, 1335001, 1360977, 1386294,
     1410987, 1435085, 1458615, 1481605, 1504077, 1526056, 1547563, 1568616, 1589235, 1609438,
     1629241, 1648659, 1667707, 1686399, 1704748, 1722767, 1740466, 1757858, 1774952, 1791759,
     1808289, 1824549, 1840550, 1856298, 1871802, 1887070, 1902108, 1916923, 1931521, 1945910,
     1960095, 1974081, 1987874, 2001480, 2014903, 2028148, 2041220, 2054124, 2066863, 2079442,
     2091864, 2104134, 2116256, 2128232, 2140066, 2151762, 2163323, 2174752, 2186051, 2197225,
     2208274, 2219203, 2230014, 2240710, 2251292, 2261763, 2272126, 2282382, 2292535, 2302585,
     2312535, 2322388, 2332144, 2341806, 2351375, 2360854, 2370244, 2379546, 2388763, 2397895,
     2406945, 2415914, 2424803, 2433613, 2442347, 2451005, 2459589, 2468100, 2476538, 2484907,
     2493205, 2501436, 2509599, 2517696, 2525729, 2533697, 2541602, 2549445, 2557227, 2564949,
     2572612, 2580217, 2587764, 2595255, 2602690, 2610070, 2617396, 2624669, 2631889, 2639057,
     2646175, 2653242, 2660260, 2667228, 2674149, 2681022, 2687847, 2694627, 2701361, 2708050,
     2714695, 2721295, 2727853, 2734368, 2740840, 2747271, 2753661, 2760010, 2766319, 2772589,
     2778819, 2785011, 2791165, 2797281, 2803360, 2809403, 2815409, 2821379, 2827314, 2833213,
     2839078, 2844909, 2850707, 2856470, 2862201, 2867899, 2873565, 2879198, 2884801, 2890372,
     2895912, 2901422, 2906901, 2912351, 2917771, 2923162, 2928524, 2933857, 2939162, 2944439,
     2949688, 2954910, 2960105, 2965273, 2970414, 2975530, 2980619, 2985682, 2990720, 2995732,
     3000720, 3005683, 3010621, 3015535, 3020425, 3025291, 3030134, 3034953, 3039749, 3044522 >>

\* ----- SMART Risk Score functions -----
RECURSIVE RoundedRisk(_, _, _)
\* round(risk10 * 100, 1) in tenths of a percent: the largest k in lo..hi with
\* RiskThreshold[k] <= lp (0 when there is none), found by bisection.
RoundedRisk(lp, lo, hi) ==
  IF lo = hi THEN lo
  ELSE LET mid == (lo + hi + 1) \div 2
       IN  IF RiskThreshold[mid] <= lp
           THEN RoundedRisk(lp, mid, hi)
           ELSE RoundedRisk(lp, lo, mid - 1)

\* A plausible slip: 0.2*egfr where the script has 0.2*(egfr/10).
LinearPredictorEgfrUnscaled(age, sex, sbp, total_chol, hdl, smoker, diabetes, egfr, crp, vasc_count) ==
  LET sex_val == IF sex = "Male" THEN 1 ELSE 0
      smoking_val == IF smoker THEN 1 ELSE 0
      diabetes_val == IF diabetes THEN 1 ELSE 0
      crp_log == IF crp # 0 THEN LnMicro[crp] ELSE 0
  IN  64000 * age + 340000 * sex_val + 20000 * sbp + 25000 * total_chol
        - 25000 * hdl + 440000 * smoking_val + 510000 * diabetes_val
        - 200000 * egfr + RoundDiv(crp_log, 4) + 400000 * vasc_count

\* lp in millionths; total_chol, hdl and crp arrive in tenths.
LinearPredictor(age, sex, sbp, total_chol, hdl, smoker, diabetes, egfr, crp, vasc_count) ==
  LET sex_val == IF sex = "Male" THEN 1 ELSE 0
      smoking_val == IF smoker THEN 1 ELSE 0
      diabetes_val == IF diabetes THEN 1 ELSE 0
      crp_log == IF crp # 0 THEN LnMicro[crp] ELSE 0
  IN  64000 * age + 340000 * sex_val + 20000 * sbp + 25000 * total_chol
        - 25000 * hdl + 440000 * smoking_val + 510000 * diabetes_val
        - 20000 * egfr + RoundDiv(crp_log, 4) + 400000 * vasc_count

estimate_smart_risk(age, sex, sbp, total_chol, hdl, smoker, diabetes, egfr, crp, vasc_count) ==
  RoundedRisk(LinearPredictor(age, sex, sbp, total_chol, hdl, smoker, diabetes,
                              egfr, crp, vasc_count),
              0, Len(RiskThreshold))

\* A plausible slip: squaring the survival where the script takes its root.
estimate_5yr_squared(risk10) ==
  1000 - RoundDiv((1000 - risk10) * (1000 - risk10), 1000)

\* risk5 in tenths: round(1000 * (1 - sqrt(1 - risk10/1000))), which is
\* 1000 - s for s the integer nearest to sqrt(1000 * (1000 - risk10)).
estimate_5yr_from_10yr(risk10) ==
  LET n == 1000 * (1000 - risk10)
      s == CHOOSE j \in 0..1000 :
             /\ (2 * j + 1) * (2 * j + 1) > 4 * n
             /\ (j = 0 \/ (2 * j - 1) * (2 * j - 1) <= 4 * n)
  IN  1000 - s

\* ----- the namespace -----
Bind(n, new) == new @@ n

IsIn(x, list) == \E i \in DOMAIN list : list[i] = x

NoError == [type |-> "none", name |-> ""]

NameError(name) == [type |-> "NameError", name |-> name]

\* The names among `names`, in order, that the namespace does not bind.
Unbound(names, n) == SelectSeq(names, LAMBDA x : x \notin DOMAIN n)

\* ----- Lipid-lowering therapy stack -----
RECURSIVE StackTherapies(_, _, _)
\* ldl after `for d in ds: ldl *= (1 - ldl_therapies[d]/100)` (full potency)
\* or `ldl *= (1 - (ldl_therapies[d]/100)*0.5)` (half potency).
StackTherapies(ldl, ds, half) ==
  IF ds = <<>> THEN ldl
  ELSE LET p == ldl_therapies[Head(ds)]
           next == IF half THEN RoundDiv(ldl * (200 - p), 200)
                           ELSE RoundDiv(ldl * (100 - p), 100)
       IN  StackTherapies(next, Tail(ds), half)

AdjustedLdl(baseline_ldl, on_therapy) ==
  Max(StackTherapies(baseline_ldl, on_therapy, FALSE), 1 * Scale)

\* A plausible slip: the second floor left out.
FinalLdlNoFloor(adjusted_ldl, additional) ==
  StackTherapies(adjusted_ldl, additional, TRUE)

\* A plausible slip: min written for max.
FinalLdlCeiling(adjusted_ldl, additional) ==
  Min(StackTherapies(adjusted_ldl, additional, TRUE), 1 * Scale)

FinalLdl(adjusted_ldl, additional) ==
  Max(StackTherapies(adjusted_ldl, additional, TRUE), 1 * Scale)

\* ----- Calculations -----
RiskArgs ==
  << "age", "sex", "sbp_current", "total_chol", "hdl", "smoker", "diabetes",
     "egfr", "crp", "vasc_count" >>

StepRisk(n) ==
  LET risk10 == estimate_smart_risk(n.age, n.sex, n.sbp_current, n.total_chol,
                                    n.hdl, n.smoker, n.diabetes, n.egfr, n.crp,
                                    n.vasc_count)
  IN  Bind(n, [risk10 |-> risk10, risk5 |-> estimate_5yr_from_10yr(risk10)])

StepBaseline(n) ==
  Bind(n, [baseline_risk |-> IF n.horizon = "5yr" THEN n.risk5
                             ELSE IF n.horizon = "10yr" THEN n.risk10
                             ELSE n.risk10])

\* A plausible slip: the 5-year column also for the 10-year horizon.
ArrOfTenYearShort(iv, horizon) ==
  IF horizon \in {"5yr", "10yr"} THEN iv.arr_5yr ELSE iv.arr_lifetime

ArrOf(iv, horizon) ==
  IF horizon = "5yr" THEN iv.arr_5yr ELSE iv.arr_lifetime

RECURSIVE NonLipid(_, _, _, _)
\* remaining after interventions[i..]: the loop runs over the catalog, and an
\* entry acts when its name is in selected_iv.
NonLipid(remaining, i, horizon, selected_iv) ==
  IF i > Len(interventions) THEN remaining
  ELSE LET iv == interventions[i]
           next == IF IsIn(iv.name, selected_iv)
                   THEN MulScale(remaining, Scale - ArrOf(iv, horizon) * (Scale \div 100))
                   ELSE remaining
       IN  NonLipid(next, i + 1, horizon, selected_iv)

RECURSIVE NonLipidAll(_, _, _, _)
\* A plausible slip: the `if iv["name"] in selected_iv` test left out.
NonLipidAll(remaining, i, horizon, selected_iv) ==
  IF i > Len(interventions) THEN remaining
  ELSE NonLipidAll(MulScale(remaining,
                            Scale - ArrOf(interventions[i], horizon) * (Scale \div 100)),
                   i + 1, horizon, selected_iv)

StepInterventionsAll(n) ==
  Bind(n, [remaining |-> NonLipidAll(n.baseline_risk * (Scale \div 1000), 1,
                                     n.horizon, n.selected_iv)])

\* baseline_risk/100 is baseline_risk (tenths of a percent) * Scale/1000.
StepInterventions(n) ==
  Bind(n, [remaining |-> NonLipid(n.baseline_risk * (Scale \div 1000), 1,
                                  n.horizon, n.selected_iv)])

\* A plausible slip: the cap left out.
LdlRrrUncapped(ldl_drop) == 22 * ldl_drop

\* percent, in millionths
LdlRrr(ldl_drop) == Min(22 * ldl_drop, 35 * Scale)

StepLdl(n) ==
  LET ldl_drop == n.baseline_ldl - n.final_ldl
      ldl_rrr == LdlRrr(ldl_drop)
  IN  Bind(n, [ldl_drop |-> ldl_drop, ldl_rrr |-> ldl_rrr,
               remaining |-> MulScale(n.remaining, Scale - RoundDiv(ldl_rrr, 100))])

\* A plausible slip: the gap taken as target minus current.
BpRrrReversed(sbp_current, sbp_target) ==
  Min(15 * (((sbp_target - sbp_current) * Scale) \div 10), 20 * Scale)

\* percent, in millionths; the SBP widgets return integers
BpRrr(sbp_current, sbp_target) ==
  Min(15 * (((sbp_current - sbp_target) * Scale) \div 10), 20 * Scale)

StepBp(n) ==
  LET bp_rrr == BpRrr(n.sbp_current, n.sbp_target)
  IN  Bind(n, [bp_rrr |-> bp_rrr,
               remaining |-> MulScale(n.remaining, Scale - RoundDiv(bp_rrr, 100))])

StepFinal(n) ==
  LET final_risk == RoundDiv(n.remaining, Scale \div 1000)
      arr == n.baseline_risk - final_risk
      rrr == IF n.baseline_risk # 0 THEN RoundDiv(arr * 1000, n.baseline_risk) ELSE 0
  IN  Bind(n, [final_risk |-> final_risk, arr |-> arr, rrr |-> rrr])

\* Lines 113-139 in one piece, from a namespace that binds the inputs and
\* risk10, risk5.
Calculations(n) == StepFinal(StepBp(StepLdl(StepInterventions(StepBaseline(n)))))

\* ----- one run of the script -----
\* Lines 58-97: the clinician inputs.  The LDL-C values are kept in millionths.
ClinicianInputs ==
  /\ pc = "inputs"
  /\ ~ns.patient_mode
  /\ LET baseline_ldl == w.baseline_ldl * (Scale \div 10)
         on_therapy == SelectSeq(ldl_therapy_names, LAMBDA d : d \in w.on)
         adjusted_ldl == AdjustedLdl(baseline_ldl, on_therapy)
         additional == SelectSeq(ldl_therapy_names,
                                 LAMBDA d : ~IsIn(d, on_therapy) /\ d \in w.new)
         final_ldl == FinalLdl(adjusted_ldl, additional)
     IN  ns' = Bind(ns, [age |-> w.age, sex |-> w.sex, smoker |-> w.smoker,
                         diabetes |-> w.diabetes, egfr |-> w.egfr,
                         total_chol |-> w.total_chol, hdl |-> w.hdl, crp |-> w.crp,
                         vasc_count |-> Cardinality(w.vasc),
                         sbp_current |-> w.sbp_current, sbp_target |-> w.sbp_target,
                         baseline_ldl |-> baseline_ldl, on_therapy |-> on_therapy,
                         adjusted_ldl |-> adjusted_ldl, additional |-> additional,
                         final_ldl |-> final_ldl, selected_iv |-> w.selected])
  /\ warnings' = warnings
       \cup (IF w.crp > 100 THEN {"hs-CRP >10 mg/L"} ELSE {})
       \cup (IF w.sbp_target >= w.sbp_current THEN {"Target SBP should be lower"} ELSE {})
  /\ pc' = "calc"
  /\ UNCHANGED <<w, out, error>>

\* Lines 99-108: the patient-friendly inputs.
PatientInputs ==
  /\ pc = "inputs"
  /\ ns.patient_mode
  /\ ns' = Bind(ns, [age |-> w.age, sbp_current |-> w.sbp_current,
                     sbp_target |-> w.sbp_target, total_chol |-> w.total_chol,
                     baseline_ldl |-> w.baseline_ldl * (Scale \div 10),
                     final_ldl |-> w.final_ldl * (Scale \div 10),
                     selected_iv |-> <<>>, vasc_count |-> 1, smoker |-> FALSE,
                     diabetes |-> FALSE, egfr |-> 80, hdl |-> 10, crp |-> 20,
                     on_therapy |-> <<>>])
  /\ pc' = "calc"
  /\ UNCHANGED <<w, warnings, out, error>>

\* Lines 111-112.  Reading a name the input branch did not bind raises
\* NameError, which ends the run.
EstimateRisk ==
  /\ pc = "calc"
  /\ LET missing == Unbound(RiskArgs, ns)
     IN  IF missing = <<>>
         THEN /\ ns' = StepRisk(ns)
              /\ pc' = "horizon"
              /\ UNCHANGED error
         ELSE /\ error' = NameError(Head(missing))
              /\ pc' = "failed"
              /\ UNCHANGED ns
  /\ UNCHANGED <<w, warnings, out>>

\* Lines 113-118.
SelectBaseline ==
  /\ pc = "horizon"
  /\ ns' = StepBaseline(ns)
  /\ pc' = "interventions"
  /\ UNCHANGED <<w, warnings, out, error>>

\* A fail-fast variant: a selected name outside the catalog ends the run.
ApplyInterventionsFailFast ==
  /\ pc = "interventions"
  /\ IF \A i \in DOMAIN ns.selected_iv : ns.selected_iv[i] \in InterventionNames
     THEN /\ ns' = StepInterventions(ns)
          /\ pc' = "ldl"
          /\ UNCHANGED error
     ELSE /\ error' = [type |-> "UnknownCatalogKey", name |-> "selected_iv"]
          /\ pc' = "failed"
          /\ UNCHANGED ns
  /\ UNCHANGED <<w, warnings, out>>

\* Lines 120-125.
ApplyInterventions ==
  /\ pc = "interventions"
  /\ ns' = StepInterventions(ns)
  /\ pc' = "ldl"
  /\ UNCHANGED <<w, warnings, out, error>>

\* Lines 127-130.
LdlEffect ==
  /\ pc = "ldl"
  /\ ns' = StepLdl(ns)
  /\ pc' = "bp"
  /\ UNCHANGED <<w, warnings, out, error>>

\* Lines 132-134.
BpEffect ==
  /\ pc = "bp"
  /\ ns' = StepBp(ns)
  /\ pc' = "final"
  /\ UNCHANGED <<w, warnings, out, error>>

\* Lines 136-139.
FinalOutputs ==
  /\ pc = "final"
  /\ ns' = StepFinal(ns)
  /\ pc' = "display"
  /\ UNCHANGED <<w, warnings, out, error>>

\* Lines 141-197: the LDL-C warning, then the two buttons.  A button returns
\* True in the run its click started.
Display ==
  /\ pc = "display"
  /\ warnings' = warnings
       \cup (IF ns.final_ldl < 1 * Scale THEN {"Final LDL-C <1.0 mmol/L"} ELSE {})
  /\ \E calculate \in BOOLEAN, chart \in BOOLEAN :
       LET missing == IF calculate /\ ns.patient_mode
                      THEN Unbound(<<"on_therapy", "additional", "selected_iv">>, ns)
                      ELSE <<>>
       IN  IF missing = <<>>
           THEN /\ out' = [results |-> IF calculate
                                       THEN <<ns.baseline_risk, ns.arr, ns.rrr, ns.final_risk>>
                                       ELSE <<>>,
                           steps |-> IF calculate /\ ns.patient_mode
                                     THEN ns.on_therapy \o ns.additional \o ns.selected_iv
                                     ELSE <<>>,
                           chart |-> IF chart THEN <<ns.baseline_risk, ns.final_risk>>
                                     ELSE <<>>]
                /\ pc' = "done"
                /\ UNCHANGED error
           ELSE /\ error' = NameError(Head(missing))
                /\ pc' = "failed"
                /\ UNCHANGED out
  /\ UNCHANGED <<w, ns>>

Next ==
  \/ ClinicianInputs
  \/ PatientInputs
  \/ EstimateRisk
  \/ SelectBaseline
  \/ ApplyInterventions
  \/ LdlEffect
  \/ BpEffect
  \/ FinalOutputs
  \/ Display

\* ----- the widget values of a run -----
Horizons == {"5yr", "10yr", "lifetime"}

VascBeds ==
  {"Coronary artery disease", "Cerebrovascular disease", "Peripheral artery disease"}

\* Each widget's default (lines 52-106); a button is read in Display.
DefaultWidgets ==
  [patient_mode |-> FALSE, horizon |-> "10yr", age |-> 60, sex |-> "Male",
   smoker |-> FALSE, diabetes |-> FALSE, egfr |-> 80, total_chol |-> 50,
   hdl |-> 10, crp |-> 20, vasc |-> {}, sbp_current |-> 145, sbp_target |-> 120,
   baseline_ldl |-> 35, on |-> {}, new |-> {}, final_ldl |-> 20, selected |-> <<>>]

\* GridN + 1 values from lo to hi, both ends included.
Grid(lo, hi) == {lo + (i * (hi - lo)) \div GridN : i \in 0..GridN}

\* The covariates at the ends of their widget ranges.
LowestRisk ==
  [DefaultWidgets EXCEPT !.age = 30, !.sex = "Female", !.egfr = 120,
                         !.total_chol = 20, !.hdl = 30, !.crp = 1]

HighestRisk ==
  [DefaultWidgets EXCEPT !.age = 90, !.smoker = TRUE, !.diabetes = TRUE,
                         !.egfr = 15, !.total_chol = 100, !.hdl = 5, !.crp = 200,
                         !.vasc = VascBeds]

\* A name no catalog entry has.
UnknownName == "Colchicine"

\* The list a multiselect returns for the ticked set S.
SelectionOf(S) ==
  SelectSeq([i \in 1..Len(interventions) |-> interventions[i].name] \o <<UnknownName>>,
            LAMBDA x : x \in S)

UpTo(S, k) == {T \in SUBSET S : Cardinality(T) <= k}

\* <<already on, new>>: at most k therapies ticked, none in both lists.
Plans(k) ==
  {pl \in UpTo(TherapyNames, k) \X UpTo(TherapyNames, k) :
     pl[1] \cap pl[2] = {} /\ Cardinality(pl[1]) + Cardinality(pl[2]) <= k}

PatientRuns ==
  {[DefaultWidgets EXCEPT !.patient_mode = TRUE, !.horizon = h, !.age = a,
                          !.final_ldl = f] :
     h \in Horizons, a \in {30, 60, 90}, f \in {5, 20, 60}}

\* <<current, target>>: the default, no change, 13 and 14 mmHg lower, the
\* largest rise and the largest fall the widgets allow.
SbpPlans ==
  {<<145, 120>>, <<145, 145>>, <<145, 132>>, <<145, 131>>, <<80, 220>>, <<220, 80>>}

\* Runs for the composition: at most MaxChoices boxes ticked among the
\* therapies and the interventions.
ComposeRuns ==
  {[p EXCEPT !.horizon = h, !.sbp_current = s[1], !.sbp_target = s[2],
             !.baseline_ldl = l, !.on = c[1][1], !.new = c[1][2],
             !.selected = SelectionOf(c[2])] :
     p \in {LowestRisk, DefaultWidgets, HighestRisk}, h \in Horizons, s \in SbpPlans,
     l \in {5, 35, 60},
     c \in {x \in Plans(MaxChoices) \X UpTo(InterventionNames, MaxChoices) :
              Cardinality(x[1][1]) + Cardinality(x[1][2]) + Cardinality(x[2])
                <= MaxChoices}}

\* Runs for the risk estimate: the covariates over their widget ranges.
RiskRuns ==
  {[DefaultWidgets EXCEPT !.age = a, !.sex = sx, !.smoker = sm, !.diabetes = db,
                          !.egfr = e, !.total_chol = tc, !.hdl = hd, !.crp = cr,
                          !.vasc = v, !.sbp_current = sb] :
     a \in Grid(30, 90), sx \in {"Male", "Female"}, sm \in BOOLEAN, db \in BOOLEAN,
     e \in {15, 120}, tc \in {20, 100}, hd \in {5, 30}, cr \in Grid(1, 200),
     v \in SUBSET VascBeds, sb \in Grid(80, 220)}

\* Runs for the therapy stack.
LdlRuns ==
  {[DefaultWidgets EXCEPT !.baseline_ldl = l, !.on = pl[1], !.new = pl[2]] :
     l \in Grid(5, 60), pl \in Plans(MaxTherapies)}

\* Runs whose selection may hold a name outside the catalog.
UnknownRuns ==
  {[DefaultWidgets EXCEPT !.horizon = h, !.selected = SelectionOf(S)] :
     h \in Horizons, S \in UpTo(InterventionNames \cup {UnknownName}, MaxSelected)}

\* The state after lines 1-55: the two top widgets are read.
InitOf(runs) ==
  /\ w \in runs
  /\ pc = "inputs"
  /\ ns = [patient_mode |-> w.patient_mode, horizon |-> w.horizon]
  /\ warnings = {}
  /\ out = [results |-> <<>>, steps |-> <<>>, chart |-> <<>>]
  /\ error = NoError

Init == InitOf(ComposeRuns \cup PatientRuns)

InitRisk == InitOf(RiskRuns \cup PatientRuns)

InitLdl == InitOf(LdlRuns \cup PatientRuns)

InitUnknown == InitOf(UnknownRuns \cup PatientRuns)

Spec == Init /\ [][Next]_vars

SpecRisk == InitRisk /\ [][Next]_vars

SpecLdl == InitLdl /\ [][Next]_vars

SpecUnknown == InitUnknown /\ [][Next]_vars

\* ----- properties -----
Bound(name) == name \in DOMAIN ns

Results(n) == <<n.baseline_risk, n.final_risk, n.arr, n.rrr>>

AfterInterventions == {"ldl", "bp", "final", "display", "done"}

HasUnknown ==
  /\ Bound("selected_iv")
  /\ \E i \in DOMAIN ns.selected_iv : ns.selected_iv[i] \notin InterventionNames

\* The namespace with the names outside the catalog taken out of selected_iv.
KnownOnly(n) ==
  Bind(n, [selected_iv |-> SelectSeq(n.selected_iv, LAMBDA x : x \in InterventionNames)])

C2_RiskStrictlyInside ==
  Bound("risk10") => (0 < ns.risk10 /\ ns.risk10 < 1000)

\* C2, amended: the rounded 10-year risk of a valid profile is never 0.0 and
\* never above 100.0; it is 100.0 itself for the highest-risk profiles.
C2_RiskPositiveAtMostHundred ==
  Bound("risk10") => (1 <= ns.risk10 /\ ns.risk10 <= 1000)

C2_Witness ==
  /\ Bound("risk10")
  /\ ns.age = 30 /\ ns.sex = "Female" /\ ns.egfr = 120 /\ ns.vasc_count = 0
  /\ ns.risk10 = 1

\* C3, as claimed: for every 10-year risk above 0 the rounded 5-year risk is
\* strictly below it.
C3_FiveBelowTen ==
  (Bound("risk5") /\ ns.risk10 > 0) => ns.risk5 < ns.risk10

\* C3, amended: the rounded 5-year risk is never above the 10-year risk; it is
\* strictly below it for every 10-year risk from 0.2 to 99.9, and equal to it
\* when the 10-year risk is 0.1 or 100.0.
C3_FiveAtMostTen ==
  Bound("risk5") =>
    /\ ns.risk5 <= ns.risk10
    /\ (ns.risk10 \in 2..999 => ns.risk5 < ns.risk10)
    /\ (ns.risk10 \in {1, 1000} => ns.risk5 = ns.risk10)

C3_Witness ==
  /\ Bound("risk5")
  /\ ns.risk10 \in 2..999
  /\ 0 < ns.risk5 /\ ns.risk5 < ns.risk10

\* C4: in the therapy stack of the clinician inputs, the adjusted LDL-C and
\* the final LDL-C are at least 1.0 mmol/L, whatever therapies are ticked.
C4_LdlFloor ==
  (~ns.patient_mode /\ Bound("final_ldl")) =>
    /\ ns.adjusted_ldl >= 1 * Scale
    /\ ns.final_ldl >= 1 * Scale

\* A run where both stages of the stack fall below the floor before it acts.
C4_Witness ==
  /\ ~ns.patient_mode /\ Bound("final_ldl")
  /\ ns.on_therapy # <<>> /\ ns.additional # <<>>
  /\ ns.baseline_ldl > 1 * Scale
  /\ StackTherapies(ns.baseline_ldl, ns.on_therapy, FALSE) < 1 * Scale
  /\ StackTherapies(ns.adjusted_ldl, ns.additional, TRUE) < 1 * Scale
  /\ pc = "bp"

\* C5: with no intervention selected, final LDL-C equal to baseline LDL-C and
\* target SBP equal to current SBP, the final risk is the baseline risk and
\* ARR and RRR are 0, for every horizon.
C5_Identity ==
  ( /\ pc \in {"display", "done"}
    /\ ns.selected_iv = <<>>
    /\ ns.final_ldl = ns.baseline_ldl
    /\ ns.sbp_target = ns.sbp_current )
  => (ns.final_risk = ns.baseline_risk /\ ns.arr = 0 /\ ns.rrr = 0)

C5_Witness ==
  /\ pc = "done"
  /\ ns.selected_iv = <<>>
  /\ ns.final_ldl = ns.baseline_ldl
  /\ ns.sbp_target = ns.sbp_current
  /\ ns.horizon = "5yr"
  /\ ns.baseline_risk > 0
  /\ ns.final_risk = ns.baseline_risk

\* C6: ldl_rrr is at most 35 and is 35 once the LDL-C drop is at least 35/22;
\* bp_rrr is at most 20 and is 20 once current minus target SBP is at least
\* 13.33 mmHg.
C6_Caps ==
  /\ Bound("ldl_rrr") =>
       /\ ns.ldl_rrr <= 35 * Scale
       /\ (22 * ns.ldl_drop >= 35 * Scale => ns.ldl_rrr = 35 * Scale)
  /\ Bound("bp_rrr") =>
       /\ ns.bp_rrr <= 20 * Scale
       /\ (100 * (ns.sbp_current - ns.sbp_target) >= 1333 => ns.bp_rrr = 20 * Scale)

C6_Witness ==
  /\ Bound("bp_rrr")
  /\ 22 * ns.ldl_drop > 70 * Scale
  /\ ns.ldl_rrr = 35 * Scale
  /\ ns.sbp_current - ns.sbp_target = 14
  /\ ns.bp_rrr = 20 * Scale

\* C7: the 10-year and the lifetime horizon give the same baseline risk (the
\* 10-year value), use the arr_lifetime column, and give the same baseline
\* risk, final risk, ARR and RRR; the 5-year horizon uses risk5.
C7_TenYearIsLifetime ==
  pc = "done" =>
    IF ns.horizon = "5yr"
    THEN ns.baseline_risk = ns.risk5
    ELSE /\ ns.baseline_risk = ns.risk10
         /\ \A i \in DOMAIN interventions :
              ArrOf(interventions[i], ns.horizon) = interventions[i].arr_lifetime
         /\ \A h \in {"10yr", "lifetime"} :
              Results(Calculations(Bind(ns, [horizon |-> h]))) = Results(ns)

\* A 10-year run with an intervention whose result the 5-year horizon changes.
C7_Witness ==
  /\ pc = "done"
  /\ ns.horizon = "10yr"
  /\ ns.selected_iv # <<>>
  /\ Results(Calculations(Bind(ns, [horizon |-> "lifetime"]))) = Results(ns)
  /\ Calculations(Bind(ns, [horizon |-> "5yr"])).rrr # ns.rrr

\* C8, as claimed: the final risk is between 0 and 100 percent.
C8_FinalRiskIsPercentage ==
  Bound("final_risk") => (0 <= ns.final_risk /\ ns.final_risk <= 1000)

\* C8, amended: the final risk is never negative, and it is at most the
\* baseline risk (so at most 100) when the LDL-C drop is not negative and
\* the target SBP is not above the current SBP.
C8_FinalRiskBounds ==
  Bound("final_risk") =>
    /\ 0 <= ns.final_risk
    /\ (ns.ldl_drop >= 0 /\ ns.sbp_target <= ns.sbp_current) =>
         (ns.final_risk <= ns.baseline_risk /\ ns.final_risk <= 1000)

C8_Witness ==
  /\ Bound("final_risk")
  /\ ns.ldl_drop > 0
  /\ ns.sbp_target < ns.sbp_current
  /\ ns.baseline_risk = 1000
  /\ 0 < ns.final_risk /\ ns.final_risk < ns.baseline_risk

EmptyPlan ==
  /\ ~ns.patient_mode
  /\ Bound("final_ldl")
  /\ ns.on_therapy = <<>>
  /\ ns.additional = <<>>

\* C9, as claimed: with no therapy ticked the final LDL-C is the baseline
\* LDL-C, for every baseline LDL-C the widget allows, and the LDL-C drop is 0.
C9_EmptyPlanKeepsLdl ==
  EmptyPlan =>
    /\ ns.final_ldl = ns.baseline_ldl
    /\ (Bound("ldl_drop") => ns.ldl_drop = 0)

\* C9, amended: with no therapy ticked the final LDL-C is the larger of the
\* baseline LDL-C and 1.0; for a baseline of at least 1.0 it is the baseline,
\* the drop and ldl_rrr are 0 and the LDL-C step leaves the remaining risk
\* as the intervention step left it.
C9_EmptyPlanFloorsLdl ==
  EmptyPlan =>
    /\ ns.final_ldl = Max(ns.baseline_ldl, 1 * Scale)
    /\ (ns.baseline_ldl >= 1 * Scale) =>
         /\ ns.final_ldl = ns.baseline_ldl
         /\ Bound("ldl_drop") => (ns.ldl_drop = 0 /\ ns.ldl_rrr = 0)
         /\ (pc = "bp") => ns.remaining = StepInterventions(ns).remaining

C9_Witness ==
  /\ EmptyPlan
  /\ pc = "bp"
  /\ ns.baseline_ldl > 1 * Scale
  /\ ns.ldl_drop = 0
  /\ ns.remaining > 0

\* C10, as claimed: a patient-friendly run never ends in an undefined-name
\* failure.
C10_PatientRunCompletes ==
  ns.patient_mode => (pc # "failed" /\ error.type # "NameError")

====
